---- MODULE Spec2Model ----
(***************************************************************************)
(* Timetable generation engine of Schedulify_Backend.                      *)
(*                                                                         *)
(*   timetable/models.py              the entity store (Teacher, Subject,  *)
(*                                    Division, ClassRoom, Preference,     *)
(*                                    Timetable, TimetableEntry)           *)
(*   timetable/utils.py               get_teacher_subject_division_mapping *)
(*                                    (pre-check, 0/1 program, read-back)  *)
(*   timetable/timetablegenerator.py  generate_timetable, try_allocate     *)
(*                                                                         *)
(* An availability string of TIME_SLOTS characters '0'/'1' is represented  *)
(* by the set of slot indices holding '1'.                                 *)
(***************************************************************************)
EXTENDS Integers, Sequences, FiniteSets, TLC

\* ------------------------------------------------------------------------
\* Program constants
\* ------------------------------------------------------------------------
TIME_SLOTS == 48
WORKDAY_COUNT == 6
SINGLE_SLOT == "Lecture"
DOUBLE_SLOT == "Lab"

SCORE_WEIGHT_E4 == 10000
PRIORITY_EPS_E4 == 10
MAXWORK_PENALTY_E4 == 1

\* ------------------------------------------------------------------------
\* Bounds of the model
\* ------------------------------------------------------------------------
MaxWorkload == 3
MaxTimetables == 2
MaxClock == 2
MaxTie == 1
MaxMissingScore == 1

\* The teacher ids of the store.
TeacherIds == {1, 2}

Slots == 0 .. (TIME_SLOTS - 1)


VARIABLES
  teacherDB,      \* Teacher rows: id -> [max_workload, availability]
  subjectDB,      \* Subject rows: id -> [lectures_per_week, labs_per_week]
  divisionDB,     \* Division rows: id -> [subjects, availability]
  classroomDB,    \* ClassRoom rows: id -> [availability]
  prefDB,         \* Preference rows: <<teacher, subject>> -> [score, created_at]
  timetableDB,    \* Timetable rows (ids)
  entryDB,        \* TimetableEntry rows
  pc,             \* position of the generation run
  req,            \* arguments of the run
  teachers,       \* availability snapshot, id -> set of free slots
  classrooms,     \* availability snapshot
  divisions,      \* availability snapshot
  LP_output,      \* result of get_teacher_subject_division_mapping
  assignments,    \* expanded and shuffled session instances
  stack,          \* the active try_allocate frames
  result,         \* what the last returned try_allocate call returned
  clock,          \* last reading of time.time() minus start_time
  txn,            \* the open transaction's savepoint and pending rows
  outcome,        \* how the last run ended
  response,       \* what generate_timetable delivered to its caller
  solverTie,      \* which of several equally good answers the backend gives
  hist            \* observations of the run

dbVars == <<teacherDB, subjectDB, divisionDB, classroomDB, prefDB, solverTie>>
entityTables == <<teacherDB, subjectDB, divisionDB, classroomDB, prefDB>>
storeVars == <<timetableDB, entryDB>>
snapVars == <<teachers, classrooms, divisions>>
vars == <<teacherDB, subjectDB, divisionDB, classroomDB, prefDB, timetableDB,
          entryDB, pc, req, teachers, classrooms, divisions, LP_output,
          assignments, stack, result, clock, txn, outcome, response,
          solverTie, hist>>

\* ------------------------------------------------------------------------
\* Helpers on finite sets and sequences
\* ------------------------------------------------------------------------
RECURSIVE SumOver(_, _)
SumOver(S, f) ==
  IF S = {} THEN 0
  ELSE LET e == CHOOSE e \in S : TRUE IN f[e] + SumOver(S \ {e}, f)

MaxOf(S) == IF S = {} THEN 0 ELSE CHOOSE m \in S : \A e \in S : e <= m

MinOf(S) == IF S = {} THEN 0 ELSE CHOOSE m \in S : \A e \in S : m <= e

RECURSIVE SortedSeq(_)
\* The elements of a set of integers in ascending order (primary-key order).
SortedSeq(S) ==
  IF S = {} THEN <<>>
  ELSE LET m == CHOOSE m \in S : \A e \in S : m <= e
       IN <<m>> \o SortedSeq(S \ {m})

RECURSIVE Flatten(_)
Flatten(ss) == IF ss = <<>> THEN <<>> ELSE Head(ss) \o Flatten(Tail(ss))

Range(s) == {s[i] : i \in DOMAIN s}

\* ------------------------------------------------------------------------
\* timetable/utils.py: get_teacher_subject_division_mapping
\* ------------------------------------------------------------------------
\* hours_per_subject: a lecture is one hour, a lab two.
hours_per_subject(s) ==
  subjectDB[s].lectures_per_week + 2 * subjectDB[s].labs_per_week

\* The (subject, division) pairs, divisions and their subjects in key order.
subj_div_pairs ==
  LET ds == SortedSeq(DOMAIN divisionDB)
  IN Flatten([i \in 1 .. Len(ds) |->
       LET ss == SortedSeq(divisionDB[ds[i]].subjects)
       IN [j \in 1 .. Len(ss) |-> <<ss[j], ds[i]>>]])

PairSet == Range(subj_div_pairs)

\* max over Preference.created_at, 0.0 when there is no preference.
max_created_ts == MaxOf({prefDB[k].created_at : k \in DOMAIN prefDB})

AllowedIgnoringPreference(require_preference, s) == DOMAIN teacherDB

allowed_teachers_for_subject(require_preference, s) ==
  {t \in DOMAIN teacherDB :
     ~require_preference \/ <<t, s>> \in DOMAIN prefDB}

total_required_hours ==
  SumOver(DOMAIN subj_div_pairs,
          [i \in DOMAIN subj_div_pairs |-> hours_per_subject(subj_div_pairs[i][1])])

total_available_hours ==
  SumOver(DOMAIN teacherDB, [t \in DOMAIN teacherDB |-> teacherDB[t].max_workload])

NoCapacityReason == {}

CapacityReason ==
  IF total_available_hours < total_required_hours
  THEN {<<"capacity", total_available_hours, total_required_hours>>}
  ELSE {}

NoTeacherReasons(require_preference) ==
  {<<"no_teacher", p[1], p[2]>> : p \in
     {q \in PairSet : allowed_teachers_for_subject(require_preference, q[1]) = {}}}

infeasibility_reasons(require_preference) ==
  NoTeacherReasons(require_preference) \cup CapacityReason

total_divisions_per_subject(s) ==
  Cardinality({p \in PairSet : p[1] = s})

hours_available(require_preference, s) ==
  LET A == allowed_teachers_for_subject(require_preference, s)
  IN SumOver(A, [t \in A |-> teacherDB[t].max_workload])

Max0(n) == IF n > 0 THEN n ELSE 0

\* subject_stats of the pre-check (nothing assigned).
subject_stats_pre(require_preference) ==
  [s \in DOMAIN subjectDB |->
     LET needed == hours_per_subject(s) * total_divisions_per_subject(s)
         avail == hours_available(require_preference, s)
     IN [hours_needed |-> needed,
         hours_assigned |-> 0,
         shortage |-> Max0(needed - avail),
         unused_capacity |-> Max0(avail - needed),
         teachers_assigned_count |-> 0,
         divisions_needed |-> total_divisions_per_subject(s)]]

InfeasibleOutput(require_preference) ==
  [solver_status |-> "infeasible",
   infeasibility_reasons |-> infeasibility_reasons(require_preference),
   subject_stats |-> subject_stats_pre(require_preference),
   assignments |-> <<>>,
   teacher_stats |-> [t \in DOMAIN teacherDB |->
       [workload |-> 0,
        unused_capacity |-> teacherDB[t].max_workload,
        max_workload |-> teacherDB[t].max_workload]],
   total_satisfaction |-> 0,
   objective_value |-> 0]

\* The binary variables x[(t, s, d)], in the order the dict x is filled.
x_keys(require_preference) ==
  Flatten([i \in DOMAIN subj_div_pairs |->
     LET p == subj_div_pairs[i]
         ts == SortedSeq(allowed_teachers_for_subject(require_preference, p[1]))
     IN [j \in 1 .. Len(ts) |-> <<ts[j], p[1], p[2]>>]])

\* workload of teacher t under the values V (the keys whose variable is 1).
Workload(V, t) ==
  LET K == {k \in V : k[1] = t}
  IN SumOver(K, [k \in K |-> hours_per_subject(k[2])])

NoAssignConstraint(V) == TRUE

\* "assign_s_d": exactly one allowed teacher per (subject, division) pair.
AssignConstraint(V) ==
  \A p \in PairSet :
    Cardinality({k \in V : k[2] = p[1] /\ k[3] = p[2]}) = 1

NoWorkloadConstraint(V) == TRUE

\* "max_workload_t": workload[t] <= t.max_workload.
WorkloadConstraint(V) ==
  \A t \in DOMAIN teacherDB : Workload(V, t) <= teacherDB[t].max_workload

score_val(preference_missing_score, t, s) ==
  IF <<t, s>> \in DOMAIN prefDB THEN prefDB[<<t, s>>].score
  ELSE preference_missing_score

created_ts(t, s) ==
  IF <<t, s>> \in DOMAIN prefDB THEN prefDB[<<t, s>>].created_at
  ELSE max_created_ts

TotalScore(preference_missing_score, V) ==
  SumOver(V, [k \in V |-> score_val(preference_missing_score, k[1], k[2])])

\* The objective, times 10^4 * max_created_ts (times 10^4 when that is 0):
\* SCORE_WEIGHT * sum(score * x) + PRIORITY_EPS * sum(priority * x)
\*   - MAXWORK_PENALTY * max_used, max_used being the largest workload.
Objective(preference_missing_score, V) ==
  LET M == IF max_created_ts = 0 THEN 1 ELSE max_created_ts
      prio == IF max_created_ts = 0 THEN 0
              ELSE SumOver(V, [k \in V |-> max_created_ts - created_ts(k[1], k[2])])
      max_used == MaxOf({Workload(V, t) : t \in DOMAIN teacherDB})
  IN SCORE_WEIGHT_E4 * M * TotalScore(preference_missing_score, V)
     + PRIORITY_EPS_E4 * prio
     - MAXWORK_PENALTY_E4 * M * max_used

FeasibleValues(require_preference) ==
  {V \in SUBSET Range(x_keys(require_preference)) :
     AssignConstraint(V) /\ WorkloadConstraint(V)}

\* prob.solve(solver): the status and the values of x the solver leaves.
\* Optimal: a feasible point of largest objective.  Otherwise the values
\* are whatever the backend left in the variables.
SolverOutcomes(require_preference, preference_missing_score) ==
  LET F == FeasibleValues(require_preference)
      best == MaxOf({Objective(preference_missing_score, U) : U \in F})
  IN IF F # {}
     THEN {[status |-> "Optimal", values |-> V] :
             V \in {W \in F : Objective(preference_missing_score, W) = best}}
     ELSE {[status |-> "Infeasible", values |-> V] :
             V \in SUBSET Range(x_keys(require_preference))}

NoFailureReasons(status) == {}

\* [] if status == "Optimal" else [f"Solver failed with status: {status}"]
solver_failed_reasons(status) ==
  IF status = "Optimal" THEN {} ELSE {<<"solver_failed", status, 0>>}

\* Read-back of the solution (utils.py "Parse Solution" to the return).
SolvedOutput(require_preference, preference_missing_score, sol) ==
  LET V == sol.values
      keys == x_keys(require_preference)
  IN [solver_status |-> sol.status,
      infeasibility_reasons |-> solver_failed_reasons(sol.status),
      subject_stats |-> [s \in DOMAIN subjectDB |->
        LET needed == hours_per_subject(s) * total_divisions_per_subject(s)
            K == {k \in V : k[2] = s}
            assigned == SumOver(K, [k \in K |-> hours_per_subject(k[2])])
            avail == hours_available(require_preference, s)
        IN [hours_needed |-> needed,
            hours_assigned |-> assigned,
            shortage |-> Max0(needed - assigned),
            unused_capacity |-> Max0(avail - assigned),
            teachers_assigned_count |-> Cardinality({k[1] : k \in K}),
            divisions_needed |-> total_divisions_per_subject(s)]],
      assignments |-> SelectSeq(keys, LAMBDA k : k \in V),
      teacher_stats |-> [t \in DOMAIN teacherDB |->
        [workload |-> Workload(V, t),
         unused_capacity |-> teacherDB[t].max_workload - Workload(V, t),
         max_workload |-> teacherDB[t].max_workload]],
      total_satisfaction |-> TotalScore(preference_missing_score, V),
      objective_value |-> Objective(preference_missing_score, V)]


\* The backend is a function of the program it is given: of the outcomes
\* open to it, it gives the one numbered solverTie (counting them by the
\* binary number their values spell over the keys of x).
ValueRank(keys, V) ==
  SumOver(DOMAIN keys,
          [i \in DOMAIN keys |-> IF keys[i] \in V THEN 2 ^ (i - 1) ELSE 0])

PickOutcome(S, keys, k) ==
  CHOOSE o \in S :
    Cardinality({u \in S : ValueRank(keys, u.values) < ValueRank(keys, o.values)})
      = k % Cardinality(S)

Solve(require_preference, preference_missing_score) ==
  PickOutcome(SolverOutcomes(require_preference, preference_missing_score),
              x_keys(require_preference), solverTie)

\* What get_teacher_subject_division_mapping returns, and whether
\* prob.solve was reached.
MappingResult(require_preference, preference_missing_score) ==
  IF infeasibility_reasons(require_preference) # {}
  THEN [out |-> InfeasibleOutput(require_preference), solved |-> FALSE]
  ELSE [out |-> SolvedOutput(require_preference, preference_missing_score,
                             Solve(require_preference, preference_missing_score)),
        solved |-> TRUE]

\* ------------------------------------------------------------------------
\* timetable/timetablegenerator.py: availability snapshots
\* ------------------------------------------------------------------------
\* filter(id__in=id_list) when id_list is given and not empty, else all();
\* None and the empty list are both written {}.
SelectedIds(table, id_list) ==
  IF id_list = {} THEN DOMAIN table
  ELSE DOMAIN table \cap id_list

\* The DataFrame indexed by id; only the availability column is modelled.
get_modifiable_entity_array(table, id_list) ==
  [id \in SelectedIds(table, id_list) |-> table[id].availability]

set_availability(df, entity_id, slot, available) ==
  [df EXCEPT ![entity_id] = IF available THEN @ \cup {slot} ELSE @ \ {slot}]

is_available(df, entity_id, slot) == slot \in df[entity_id]

\* A placement is (teacher_id, subject_id, division_id, slot, room_id,
\* session_type), as in the tuples of current_allocations.
same_subject_in_day_exists(division_id, subject_id, slot, session_type, current_allocations) ==
  \E i \in DOMAIN current_allocations :
    /\ current_allocations[i][3] = division_id
    /\ current_allocations[i][2] = subject_id
    /\ current_allocations[i][4] % WORKDAY_COUNT = slot % WORKDAY_COUNT

\* The slots a session of the given kind placed at slot occupies.
OccupiedSlots(slot, session_type) ==
  IF session_type = DOUBLE_SLOT THEN {slot, slot + WORKDAY_COUNT} ELSE {slot}

LabStartAnyRow(slot) == slot + WORKDAY_COUNT < TIME_SLOTS

\* The Lab pairing rule of try_allocate.
LabStartOk(slot) ==
  (slot \div WORKDAY_COUNT) % 2 = 0 /\ slot + WORKDAY_COUNT < TIME_SLOTS

\* Whether (slot, room_id) passes the filters of the candidate loop.
IsCandidate(a, slot, room_id) ==
  IF a[4] = SINGLE_SLOT
  THEN /\ is_available(teachers, a[1], slot)
       /\ is_available(divisions, a[3], slot)
       /\ is_available(classrooms, room_id, slot)
  ELSE /\ a[4] = DOUBLE_SLOT
       /\ is_available(teachers, a[1], slot)
       /\ is_available(divisions, a[3], slot)
       /\ LabStartOk(slot)
       /\ is_available(teachers, a[1], slot + WORKDAY_COUNT)
       /\ is_available(divisions, a[3], slot + WORKDAY_COUNT)
       /\ is_available(classrooms, room_id, slot)
       /\ is_available(classrooms, room_id, slot + WORKDAY_COUNT)

SlotsScannedInclusive == TIME_SLOTS + 1

\* for slot in range(TIME_SLOTS): the number of slots the loop visits.
SlotsScanned == TIME_SLOTS

\* The slot indices the candidate loop passes to is_available for session
\* a: every visited slot for the teacher, and slot + WORKDAY_COUNT for a
\* Lab where teacher and division are free and the pairing rule holds.
IndicesRead(a) ==
  (0 .. (SlotsScanned - 1))
    \cup {slot + WORKDAY_COUNT : slot \in
            {k \in 0 .. (SlotsScanned - 1) :
               /\ a[4] = DOUBLE_SLOT
               /\ is_available(teachers, a[1], k)
               /\ is_available(divisions, a[3], k)
               /\ LabStartOk(k)}}

\* candidate_slots before the sort: slots ascending, rooms in index order.
UnsortedCandidates(a, current_allocations) ==
  LET rooms == SortedSeq(DOMAIN classrooms)
      n == Len(rooms)
      all == [k \in 1 .. (SlotsScanned * n) |->
                <<((k - 1) \div n), rooms[((k - 1) % n) + 1]>>]
      ok == SelectSeq(all, LAMBDA c : IsCandidate(a, c[1], c[2]))
  IN [k \in 1 .. Len(ok) |->
        <<same_subject_in_day_exists(a[3], a[2], ok[k][1], a[4],
                                     current_allocations),
          ok[k][1], ok[k][2]>>]

ViolatingFirst(cands) ==
  SelectSeq(cands, LAMBDA c : c[1]) \o SelectSeq(cands, LAMBDA c : ~c[1])

OnlyNonViolating(cands) == SelectSeq(cands, LAMBDA c : ~c[1])

\* candidate_slots.sort(key=lambda x: x[0]): stable, False before True.
SortByViolation(cands) ==
  SelectSeq(cands, LAMBDA c : ~c[1]) \o SelectSeq(cands, LAMBDA c : c[1])

candidate_slots(a, current_allocations) ==
  SortByViolation(UnsortedCandidates(a, current_allocations))

MarkFirstSlotOnly(df, entity_id, slot, session_type, available) ==
  set_availability(df, entity_id, slot, available)

\* One snapshot after marking (available = FALSE) or rolling back
\* (available = TRUE) the slot(s) of a candidate for one entity.
MarkAll(df, entity_id, slot, session_type, available) ==
  IF session_type = DOUBLE_SLOT
  THEN set_availability(set_availability(df, entity_id, slot, available),
                        entity_id, slot + WORKDAY_COUNT, available)
  ELSE set_availability(df, entity_id, slot, available)

\* ------------------------------------------------------------------------
\* Session expansion and shuffle
\* ------------------------------------------------------------------------
Repeat(e, n) == [i \in 1 .. n |-> e]

ExpandOncePerTriple(triples) ==
  [i \in DOMAIN triples |->
     <<triples[i][1], triples[i][2], triples[i][3], SINGLE_SLOT>>]

\* generate_timetable's expansion loop over LP_output['assignments'].
ExpandAssignments(triples) ==
  Flatten([i \in DOMAIN triples |->
     LET t == triples[i]
     IN Repeat(<<t[1], t[2], t[3], SINGLE_SLOT>>,
               subjectDB[t[2]].lectures_per_week)
        \o Repeat(<<t[1], t[2], t[3], DOUBLE_SLOT>>,
                  subjectDB[t[2]].labs_per_week)])

Swap(x, i, j) == [x EXCEPT ![i] = x[j], ![j] = x[i]]

RECURSIVE ShuffleFrom(_, _, _)
\* random.shuffle: for i from len-1 down to 1, j = randbelow(i + 1), swap.
\* The generator's outputs are the mixed-radix digits of its seed r.
ShuffleFrom(x, i, r) ==
  IF i < 2 THEN x
  ELSE ShuffleFrom(Swap(x, i, (r % i) + 1), i - 1, r \div i)

\* The generator left in the state the earlier runs brought it to.
ShuffleNotReseeded(x, seed) ==
  ShuffleFrom(x, Len(x), seed + Cardinality(timetableDB))

Shuffle(x, seed) == ShuffleFrom(x, Len(x), seed)


\* ------------------------------------------------------------------------
\* The entity store's constraints on TimetableEntry (models.py)
\* ------------------------------------------------------------------------
EntryRow(p, timetable_id) ==
  [teacher |-> p[1], subject |-> p[2], division |-> p[3], time_slot |-> p[4],
   classroom |-> p[5], session_type |-> p[6], timetable |-> timetable_id]

UniquePerTimetable(row, rows) ==
  \A r \in {q \in rows : q.timetable = row.timetable} :
    /\ ~(r.division = row.division /\ r.time_slot = row.time_slot)
    /\ ~(r.teacher = row.teacher /\ r.time_slot = row.time_slot)
    /\ ~(r.classroom = row.classroom /\ r.time_slot = row.time_slot)

\* unique_together: (division, time_slot), (teacher, time_slot),
\* (classroom, time_slot), over all rows of the table.
UniqueTogether(row, rows) ==
  \A r \in rows :
    /\ ~(r.division = row.division /\ r.time_slot = row.time_slot)
    /\ ~(r.teacher = row.teacher /\ r.time_slot = row.time_slot)
    /\ ~(r.classroom = row.classroom /\ r.time_slot = row.time_slot)

ForeignKeysOk(row) ==
  /\ row.teacher \in DOMAIN teacherDB
  /\ row.subject \in DOMAIN subjectDB
  /\ row.division \in DOMAIN divisionDB
  /\ row.classroom \in DOMAIN classroomDB
  /\ row.timetable \in timetableDB

RECURSIVE InsertRows(_, _)
\* bulk_create: the rows go in one after the other until one is refused.
\* Yields the table and whether every row went in.
InsertRows(rows, table) ==
  IF rows = <<>> THEN [table |-> table, ok |-> TRUE]
  ELSE IF UniqueTogether(Head(rows), table) /\ ForeignKeysOk(Head(rows))
       THEN InsertRows(Tail(rows), table \cup {Head(rows)})
       ELSE [table |-> table, ok |-> FALSE]

\* ------------------------------------------------------------------------
\* Inputs of a run
\* ------------------------------------------------------------------------
\* timeout: 0 stands for None (and for 0), which disables the check.
TimeoutChoices == {0, 1}

RECURSIVE Factorial(_)
Factorial(n) == IF n <= 1 THEN 1 ELSE n * Factorial(n - 1)

MaxSeed == 1

SeedChoices(n) ==
  {r \in 0 .. MaxSeed : r < Factorial(n)}

\* What a try_allocate call returns: None, or a list of placements.
NoneResult == [none |-> TRUE, list |-> <<>>]
ListResult(l) == [none |-> FALSE, list |-> l]

NoTxn == [timetableDB |-> {}, entryDB |-> {}, id |-> 0]

\* The last earlier run whose search returned placements.
NoPrev == [input |-> <<>>, seed |-> -1, list |-> <<>>]

EmptyHist ==
  [store0 |-> <<{}, {}>>, solved |-> "no", tryCalled |-> FALSE,
   sessions |-> <<>>, seed |-> -1, snap0 |-> <<>>, allocations |-> NoneResult,
   args |-> <<TRUE, 0>>, prev |-> NoPrev, input0 |-> <<>>, edits |-> 0]

NoOutput ==
  [solver_status |-> "none", infeasibility_reasons |-> {},
   subject_stats |-> <<>>, assignments |-> <<>>, teacher_stats |-> <<>>,
   total_satisfaction |-> 0, objective_value |-> 0]

\* What a call of generate_timetable delivers: nothing yet, a returned
\* value (None or the mapping's output) or a raised exception.
NoResponse == [kind |-> "none", none |-> FALSE, exc |-> "", data |-> NoOutput]

Returned(out) == [kind |-> "return", none |-> FALSE, exc |-> "", data |-> out]

ReturnedNone == [kind |-> "return", none |-> TRUE, exc |-> "", data |-> NoOutput]

Raised(e) == [kind |-> "raise", none |-> FALSE, exc |-> e, data |-> NoOutput]

ReturnOutputAnyway(out) == Returned(out)

\* print("No full timetable possible"); return None
NoScheduleReturn(out) == ReturnedNone

\* views.generate: the HTTP response for what generate_timetable delivered.
generate(r) ==
  IF r.kind = "raise"
  THEN [status |-> IF r.exc = "TimeoutError" THEN 408 ELSE 500,
        none |-> FALSE, data |-> NoOutput]
  ELSE [status |-> 200, none |-> r.none, data |-> r.data]

\* ------------------------------------------------------------------------
\* generate_timetable
\* ------------------------------------------------------------------------
\* The call: arguments bound, start_time = time.time().
Call(request) ==
  /\ pc = "idle"
  /\ Cardinality(timetableDB) < MaxTimetables
  /\ req' = request
  /\ pc' = "load"
  /\ clock' = 0
  /\ teachers' = <<>> /\ classrooms' = <<>> /\ divisions' = <<>>
  /\ LP_output' = NoOutput
  /\ assignments' = <<>>
  /\ stack' = <<>>
  /\ result' = NoneResult
  /\ txn' = NoTxn
  /\ outcome' = "running"
  /\ response' = NoResponse
  /\ hist' = [EmptyHist EXCEPT
                !.store0 = <<timetableDB, entryDB>>,
                !.prev = hist.prev,
                !.edits = hist.edits,
                !.input0 = <<entityTables, request.teacher_ids,
                             request.classroom_ids, request.division_ids>>]
  /\ UNCHANGED <<dbVars, storeVars>>

\* The arguments views.generate passes: a timeout and no id list.
ViewRequests ==
  {[timeout |-> to, teacher_ids |-> {}, classroom_ids |-> {},
    division_ids |-> {}] : to \in TimeoutChoices}

\* views.generate: generate_timetable(timeout=timeout).
Start == \E r \in ViewRequests : Call(r)

\* pd.DataFrame of no row has no 'id' column: set_index raises KeyError.
EmptyFrame(table, id_list) == SelectedIds(table, id_list) = {}

SomeFrameEmpty ==
  \/ EmptyFrame(teacherDB, req.teacher_ids)
  \/ EmptyFrame(classroomDB, req.classroom_ids)
  \/ EmptyFrame(divisionDB, req.division_ids)

\* The three get_modifiable_entity_array calls.
LoadSnapshots ==
  /\ pc = "load"
  /\ ~SomeFrameEmpty
  /\ teachers' = get_modifiable_entity_array(teacherDB, req.teacher_ids)
  /\ classrooms' = get_modifiable_entity_array(classroomDB, req.classroom_ids)
  /\ divisions' = get_modifiable_entity_array(divisionDB, req.division_ids)
  /\ hist' = [hist EXCEPT !.snap0 = <<teachers', classrooms', divisions'>>]
  /\ pc' = "lp"
  /\ UNCHANGED <<dbVars, storeVars, req, LP_output, assignments, stack,
                 result, clock, txn, outcome, response>>

\* LP_output = get_teacher_subject_division_mapping(require_preference=True)
RunLP ==
  /\ pc = "lp"
  /\ LET r == MappingResult(TRUE, 0)
     IN /\ LP_output' = r.out
        /\ hist' = [hist EXCEPT !.solved = IF r.solved THEN "yes" ELSE "no"]
  /\ pc' = "expand"
  /\ UNCHANGED <<dbVars, storeVars, req, snapVars, assignments, stack,
                 result, clock, txn, outcome, response>>

\* The expansion loop.
Expand ==
  /\ pc = "expand"
  /\ assignments' = ExpandAssignments(LP_output.assignments)
  /\ hist' = [hist EXCEPT !.sessions = assignments']
  /\ pc' = "shuffle"
  /\ UNCHANGED <<dbVars, storeVars, req, snapVars, LP_output, stack, result,
                 clock, txn, outcome, response>>

\* random.shuffle(assignments), the generator being in the state seed.
ShuffleStep ==
  /\ pc = "shuffle"
  /\ \E seed \in SeedChoices(Len(assignments)) :
       /\ assignments' = Shuffle(assignments, seed)
       /\ hist' = [hist EXCEPT !.seed = seed]
  /\ pc' = "call"
  /\ UNCHANGED <<dbVars, storeVars, req, snapVars, LP_output, stack, result,
                 clock, txn, outcome, response>>


\* ------------------------------------------------------------------------
\* try_allocate, one frame of stack per active call
\* ------------------------------------------------------------------------
\* The placement the frame's loop is currently trying.
FramePlacement(f) ==
  <<f.a[1], f.a[2], f.a[3], f.cands[f.pos][2], f.cands[f.pos][3], f.a[4]>>

CallerAllocations ==
  IF stack = <<>> THEN <<>> ELSE stack[Len(stack)].cur

\* current_allocations of the call about to run.
NextCurrentAllocations ==
  IF stack = <<>> THEN <<>>
  ELSE LET f == stack[Len(stack)] IN Append(f.cur, FramePlacement(f))

\* A reading t of time.time() - start_time; none is taken without timeout.
ClockReading(t) ==
  IF req.timeout = 0 THEN t = clock ELSE t \in clock .. MaxClock

ExpiredInMillis(t) == req.timeout # 0 /\ t > 1000 * req.timeout

\* timeout and (time.time() - start_time) > timeout
Expired(t) == req.timeout # 0 /\ t > req.timeout

\* The lookups of the candidate loop that meet an id missing from a
\* snapshot: the teacher at slot 0, the division at the first slot the
\* teacher is free at.
LookupFails(a) ==
  IF a[1] \notin DOMAIN teachers THEN TRUE
  ELSE teachers[a[1]] \cap Slots # {} /\ a[3] \notin DOMAIN divisions

\* raise TimeoutError on entry.
TryTimeout ==
  /\ pc = "call"
  /\ \E t \in 0 .. MaxClock :
       /\ ClockReading(t) /\ Expired(t)
       /\ clock' = t
  /\ outcome' = "timeout"
  /\ response' = Raised("TimeoutError")
  /\ pc' = "idle"
  /\ hist' = [hist EXCEPT !.tryCalled = TRUE]
  /\ UNCHANGED <<dbVars, storeVars, req, snapVars, LP_output, assignments,
                 stack, result, txn>>

\* assignment_index == len(assignments): return [].
TryBase ==
  /\ pc = "call"
  /\ Len(stack) = Len(assignments)
  /\ \E t \in 0 .. MaxClock :
       /\ ClockReading(t) /\ ~Expired(t)
       /\ clock' = t
  /\ result' = ListResult(<<>>)
  /\ pc' = "ret"
  /\ hist' = [hist EXCEPT !.tryCalled = TRUE]
  /\ UNCHANGED <<dbVars, storeVars, req, snapVars, LP_output, assignments,
                 stack, txn, outcome, response>>

\* Otherwise: build and sort candidate_slots, enter the loop.
TryCandidates ==
  /\ pc = "call"
  /\ Len(stack) < Len(assignments)
  /\ \E t \in 0 .. MaxClock :
       /\ ClockReading(t) /\ ~Expired(t)
       /\ clock' = t
  /\ ~LookupFails(assignments[Len(stack) + 1])
  /\ LET a == assignments[Len(stack) + 1]
         cur == NextCurrentAllocations
     IN stack' = Append(stack, [a |-> a, cur |-> cur,
                                cands |-> candidate_slots(a, cur), pos |-> 0,
                                entry |-> <<teachers, classrooms, divisions>>,
                                lo |-> MinOf(IndicesRead(a)),
                                hi |-> MaxOf(IndicesRead(a))])
  /\ pc' = "loop"
  /\ hist' = [hist EXCEPT !.tryCalled = TRUE]
  /\ UNCHANGED <<dbVars, storeVars, req, snapVars, LP_output, assignments,
                 result, txn, outcome, response>>

SameCandidate(f) == IF f.pos = 0 THEN 1 ELSE f.pos

\* for _, slot, room_id in candidate_slots: the position the loop moves to.
NextCandidate(f) == f.pos + 1

\* Next candidate: mark its slot(s) busy and call try_allocate again.
TryNext ==
  /\ pc = "loop"
  /\ LET n == Len(stack)
         f == stack[n]
     IN /\ f.pos < Len(f.cands)
        /\ LET c == f.cands[NextCandidate(f)]
           IN /\ teachers' = MarkAll(teachers, f.a[1], c[2], f.a[4], FALSE)
              /\ divisions' = MarkAll(divisions, f.a[3], c[2], f.a[4], FALSE)
              /\ classrooms' = MarkAll(classrooms, c[3], c[2], f.a[4], FALSE)
        /\ stack' = [stack EXCEPT ![n].pos = NextCandidate(f)]
  /\ pc' = "call"
  /\ UNCHANGED <<dbVars, storeVars, req, LP_output, assignments, result,
                 clock, txn, outcome, response, hist>>

\* The loop ran out of candidates: return None.
TryExhausted ==
  /\ pc = "loop"
  /\ stack[Len(stack)].pos = Len(stack[Len(stack)].cands)
  /\ stack' = SubSeq(stack, 1, Len(stack) - 1)
  /\ result' = NoneResult
  /\ pc' = "ret"
  /\ UNCHANGED <<dbVars, storeVars, req, snapVars, LP_output, assignments,
                 clock, txn, outcome, response, hist>>

UnmarkFirstSlotOnly(df, entity_id, slot, session_type) ==
  set_availability(df, entity_id, slot, TRUE)

\* The rollback of one snapshot: the slot(s) of the candidate set to '1'.
Unmark(df, entity_id, slot, session_type) ==
  MarkAll(df, entity_id, slot, session_type, TRUE)

\* The recursive call returned None: roll the candidate back.
RetRollback ==
  /\ pc = "ret"
  /\ stack # <<>>
  /\ result.none
  /\ LET f == stack[Len(stack)]
         c == f.cands[f.pos]
     IN /\ teachers' = Unmark(teachers, f.a[1], c[2], f.a[4])
        /\ divisions' = Unmark(divisions, f.a[3], c[2], f.a[4])
        /\ classrooms' = Unmark(classrooms, c[3], c[2], f.a[4])
  /\ pc' = "loop"
  /\ UNCHANGED <<dbVars, storeVars, req, LP_output, assignments, stack,
                 result, clock, txn, outcome, response, hist>>

ReturnWithoutOwn(res, placement) == res

\* result + [(teacher_id, subject_id, division_id, slot, room_id, session_type)]
ReturnList(res, placement) == Append(res, placement)

\* The recursive call returned a list: return result + [placement].
RetSuccess ==
  /\ pc = "ret"
  /\ stack # <<>>
  /\ ~result.none
  /\ result' = ListResult(ReturnList(result.list, FramePlacement(stack[Len(stack)])))
  /\ stack' = SubSeq(stack, 1, Len(stack) - 1)
  /\ UNCHANGED <<dbVars, storeVars, req, snapVars, LP_output, assignments,
                 pc, clock, txn, outcome, response, hist>>

\* allocations is None: "No full timetable possible", return None.
NoTimetable ==
  /\ pc = "ret"
  /\ stack = <<>>
  /\ result.none
  /\ outcome' = "no_timetable"
  /\ response' = NoScheduleReturn(LP_output)
  /\ pc' = "idle"
  /\ UNCHANGED <<dbVars, storeVars, req, snapVars, LP_output, assignments,
                 stack, result, clock, txn, hist>>

\* The input snapshot of the run: the entity tables and the id arguments.
RunInput ==
  <<entityTables, req.teacher_ids, req.classroom_ids, req.division_ids>>

ThisRun == [input |-> hist.input0, seed |-> hist.seed, list |-> result.list]

\* allocations is a list: go on to persist it.
GotAllocations ==
  /\ pc = "ret"
  /\ stack = <<>>
  /\ ~result.none
  /\ hist' = [hist EXCEPT !.allocations = result]
  /\ pc' = "persist"
  /\ UNCHANGED <<dbVars, storeVars, req, snapVars, LP_output, assignments,
                 stack, result, clock, txn, outcome, response>>

\* ------------------------------------------------------------------------
\* Persistence: with transaction.atomic()
\* ------------------------------------------------------------------------
NewTimetableId == MaxOf(timetableDB) + 1

\* Enter the atomic block and Timetable.objects.create().
CreateTimetable ==
  /\ pc = "persist"
  /\ txn' = [timetableDB |-> timetableDB, entryDB |-> entryDB,
             id |-> NewTimetableId]
  /\ timetableDB' = timetableDB \cup {NewTimetableId}
  /\ pc' = "bulk"
  /\ UNCHANGED <<dbVars, entryDB, req, snapVars, LP_output, assignments,
                 stack, result, clock, outcome, response, hist>>

NewRows == [i \in DOMAIN result.list |-> EntryRow(result.list[i], txn.id)]

\* bulk_create succeeds, the block commits, LP_output is returned.
BulkCreateCommit ==
  /\ pc = "bulk"
  /\ InsertRows(NewRows, entryDB).ok
  /\ entryDB' = InsertRows(NewRows, entryDB).table
  /\ txn' = NoTxn
  /\ outcome' = "success"
  /\ response' = Returned(LP_output)
  /\ pc' = "idle"
  /\ hist' = [hist EXCEPT !.prev = ThisRun]
  /\ UNCHANGED <<dbVars, timetableDB, req, snapVars, LP_output, assignments,
                 stack, result, clock>>

\* bulk_create raises IntegrityError inside the block.
BulkCreateFail ==
  /\ pc = "bulk"
  /\ ~InsertRows(NewRows, entryDB).ok
  /\ entryDB' = InsertRows(NewRows, entryDB).table
  /\ pc' = "rollback"
  /\ UNCHANGED <<dbVars, timetableDB, req, snapVars, LP_output, assignments,
                 stack, result, clock, txn, outcome, response, hist>>

KeepPartial(saved, current) == current

\* What the store holds once the atomic block has been left by an exception.
RolledBack(saved, current) == saved

\* The atomic block rolls back and the IntegrityError is re-raised.
Rollback ==
  /\ pc = "rollback"
  /\ timetableDB' = RolledBack(txn.timetableDB, timetableDB)
  /\ entryDB' = RolledBack(txn.entryDB, entryDB)
  /\ txn' = NoTxn
  /\ outcome' = "integrity_error"
  /\ response' = Raised("IntegrityError")
  /\ pc' = "idle"
  /\ hist' = [hist EXCEPT !.prev = ThisRun]
  /\ UNCHANGED <<dbVars, req, snapVars, LP_output, assignments, stack,
                 result, clock>>

\* ------------------------------------------------------------------------
\* Specification
\* ------------------------------------------------------------------------
Next ==
  \/ Start
  \/ LoadSnapshots
  \/ RunLP
  \/ Expand
  \/ ShuffleStep
  \/ TryTimeout
  \/ TryBase
  \/ TryCandidates
  \/ TryNext
  \/ TryExhausted
  \/ RetRollback
  \/ RetSuccess
  \/ NoTimetable
  \/ GotAllocations
  \/ CreateTimetable
  \/ BulkCreateCommit
  \/ BulkCreateFail
  \/ Rollback

InitRun ==
  /\ timetableDB = {}
  /\ entryDB = {}
  /\ pc = "idle"
  /\ req = [timeout |-> 0, teacher_ids |-> {}, classroom_ids |-> {},
            division_ids |-> {}]
  /\ teachers = <<>> /\ classrooms = <<>> /\ divisions = <<>>
  /\ LP_output = NoOutput
  /\ assignments = <<>>
  /\ stack = <<>>
  /\ result = NoneResult
  /\ clock = 0
  /\ txn = NoTxn
  /\ outcome = "none"
  /\ response = NoResponse
  /\ hist = EmptyHist

\* ------------------------------------------------------------------------
\* Initial entity stores
\* ------------------------------------------------------------------------
\* The slots any availability string of the initial stores may hold free:
\* two day classes, and rows 0 to 2 of the grid.
Pool == {0, 1, 6, 12}

NoPref == [score |-> 0, created_at |-> 0]

\* Preference rows from a choice c: <<teacher, subject>> -> a row or NoPref.
PrefRows(c) ==
  [k \in {q \in DOMAIN c : c[q] # NoPref} |-> c[k]]

Counts(l, b) == [lectures_per_week |-> l, labs_per_week |-> b]

Teacher(w, av) == [max_workload |-> w, availability |-> av]

Division(subs, av) == [subjects |-> subs, availability |-> av]

ClassRoom(av) == [availability |-> av]

\* Availability strings of the first teacher: everything in the pool, one
\* Lab pair, two day classes, a single slot, a pair starting in an odd row.
AvailChoices == {Pool, {0, 6}, {0, 1}, {0}, {6, 12}}

\* Stores for the generation runs: subject 1 is required by division 1 and
\* possibly by division 2; subject 2 is required by nobody.
Init ==
  /\ \E w1 \in {MaxWorkload - 1, MaxWorkload} :
     \E a1 \in AvailChoices, a2 \in {Pool, {0}} :
       teacherDB = (1 :> Teacher(w1, a1)) @@ (2 :> Teacher(MaxWorkload, a2))
  /\ \E c \in {Counts(2, 0), Counts(1, 1)} :
       subjectDB = (1 :> c) @@ (2 :> Counts(1, 0))
  /\ \E s2 \in {{}, {1}} :
       divisionDB = (1 :> Division({1}, Pool)) @@ (2 :> Division(s2, Pool))
  /\ \E r2 \in {Pool, {}} :
       classroomDB = (1 :> ClassRoom(Pool)) @@ (2 :> ClassRoom(r2))
  /\ \E c \in [TeacherIds \X {1} -> {NoPref, [score |-> 5, created_at |-> 1]}] :
       prefDB = PrefRows(c)
  /\ solverTie \in 0 .. MaxTie
  /\ InitRun

Spec == Init /\ [][Next]_vars

\* ------------------------------------------------------------------------
\* generate_timetable called with id lists
\* ------------------------------------------------------------------------
\* One list given at a time: teacher 1, classroom 1, division 1, or a
\* classroom id no row has.
RestrictedRequests ==
  {[timeout |-> 0, teacher_ids |-> {1}, classroom_ids |-> {},
    division_ids |-> {}],
   [timeout |-> 0, teacher_ids |-> {}, classroom_ids |-> {1},
    division_ids |-> {}],
   [timeout |-> 0, teacher_ids |-> {}, classroom_ids |-> {},
    division_ids |-> {1}],
   [timeout |-> 0, teacher_ids |-> {}, classroom_ids |-> {3},
    division_ids |-> {}]}

StartRestricted == \E r \in RestrictedRequests : Call(r)

\* get_modifiable_entity_array raises KeyError on an empty selection.
LoadKeyError ==
  /\ pc = "load"
  /\ SomeFrameEmpty
  /\ outcome' = "key_error"
  /\ response' = Raised("KeyError")
  /\ pc' = "idle"
  /\ UNCHANGED <<dbVars, storeVars, req, snapVars, LP_output, assignments,
                 stack, result, clock, txn, hist>>

\* df.at[entity_id, 'availability'] raises KeyError inside try_allocate.
TryKeyError ==
  /\ pc = "call"
  /\ Len(stack) < Len(assignments)
  /\ \E t \in 0 .. MaxClock :
       /\ ClockReading(t) /\ ~Expired(t)
       /\ clock' = t
  /\ LookupFails(assignments[Len(stack) + 1])
  /\ outcome' = "key_error"
  /\ response' = Raised("KeyError")
  /\ pc' = "idle"
  /\ hist' = [hist EXCEPT !.tryCalled = TRUE]
  /\ UNCHANGED <<dbVars, storeVars, req, snapVars, LP_output, assignments,
                 stack, result, txn>>

\* Fewer stores, for the runs with id lists or with edits: division 1
\* alone requires subject 1, one room is free.
InitSmall ==
  /\ \E a1 \in {Pool, {0, 6}} :
       teacherDB = (1 :> Teacher(MaxWorkload, a1))
                   @@ (2 :> Teacher(MaxWorkload, Pool))
  /\ \E c \in {Counts(2, 0), Counts(1, 1)} :
       subjectDB = (1 :> c) @@ (2 :> Counts(1, 0))
  /\ divisionDB = (1 :> Division({1}, Pool)) @@ (2 :> Division({}, Pool))
  /\ classroomDB = (1 :> ClassRoom(Pool)) @@ (2 :> ClassRoom({}))
  /\ \E c \in [TeacherIds \X {1} -> {NoPref, [score |-> 5, created_at |-> 1]}] :
       prefDB = PrefRows(c)
  /\ solverTie = 0
  /\ InitRun

\* ------------------------------------------------------------------------
\* Progress of a run
\* ------------------------------------------------------------------------
\* The steps of try_allocate: sequential code that, once entered, goes on
\* to its next statement.
SearchStep ==
  \/ TryTimeout
  \/ TryBase
  \/ TryCandidates
  \/ TryNext
  \/ TryExhausted
  \/ RetRollback
  \/ RetSuccess

\* The generation runs on the smaller stores, a search under way taking
\* its next step.
SpecLive == InitSmall /\ [][Next]_vars /\ WF_vars(SearchStep)

NextIds == Next \/ StartRestricted \/ LoadKeyError \/ TryKeyError

SpecIds == InitSmall /\ [][NextIds]_vars

\* ------------------------------------------------------------------------
\* Edits of the entity store by other requests while a run is in flight
\* ------------------------------------------------------------------------
MaxEdits == 1

\* A Subject, a Teacher or a Preference row is saved or deleted between
\* two reads of the run: before the snapshots, the solver or the expansion.
EditStore ==
  /\ pc \in {"load", "lp", "expand"}
  /\ hist.edits < MaxEdits
  /\ \/ /\ subjectDB' = [subjectDB EXCEPT ![1] = Counts(1, 0)]
        /\ subjectDB' # subjectDB
        /\ UNCHANGED <<teacherDB, prefDB>>
     \/ /\ teacherDB' = [teacherDB EXCEPT ![1].availability = {1}]
        /\ teacherDB' # teacherDB
        /\ UNCHANGED <<subjectDB, prefDB>>
     \/ /\ <<1, 1>> \in DOMAIN prefDB
        /\ prefDB' = [k \in DOMAIN prefDB \ {<<1, 1>>} |-> prefDB[k]]
        /\ UNCHANGED <<teacherDB, subjectDB>>
  /\ hist' = [hist EXCEPT !.edits = hist.edits + 1]
  /\ UNCHANGED <<divisionDB, classroomDB, solverTie, storeVars, pc, req,
                 snapVars, LP_output, assignments, stack, result, clock, txn,
                 outcome, response>>

NextEdits == Next \/ EditStore

SpecEdits == InitSmall /\ [][NextEdits]_vars

\* ------------------------------------------------------------------------
\* get_teacher_subject_division_mapping called on its own
\* ------------------------------------------------------------------------
MappingCall ==
  /\ pc = "idle"
  /\ outcome = "none"
  /\ \E require_preference \in BOOLEAN,
        preference_missing_score \in 0 .. MaxMissingScore :
       LET r == MappingResult(require_preference, preference_missing_score)
       IN /\ LP_output' = r.out
          /\ hist' = [hist EXCEPT
                        !.solved = IF r.solved THEN "yes" ELSE "no",
                        !.args = <<require_preference, preference_missing_score>>]
  /\ outcome' = "mapped"
  /\ UNCHANGED <<dbVars, storeVars, pc, req, snapVars, assignments, stack,
                 result, clock, txn, response>>

NextLP == MappingCall

\* Stores for the assignment solver: workloads from 0, both subjects with
\* lectures and labs, every division requiring up to two subjects, scores
\* and creation times that differ.
InitLP ==
  /\ \E w1 \in 0 .. MaxWorkload, w2 \in {1, MaxWorkload} :
       teacherDB = (1 :> Teacher(w1, Pool)) @@ (2 :> Teacher(w2, Pool))
  /\ \E c1 \in {Counts(1, 0), Counts(0, 1)},
        c2 \in {Counts(1, 0), Counts(1, 1)} :
       subjectDB = (1 :> c1) @@ (2 :> c2)
  /\ \E s1 \in {{1}, {1, 2}}, s2 \in {{}, {1}, {2}} :
       divisionDB = (1 :> Division(s1, Pool)) @@ (2 :> Division(s2, Pool))
  /\ classroomDB = (1 :> ClassRoom(Pool)) @@ (2 :> ClassRoom(Pool))
  /\ \E p11 \in {NoPref, [score |-> 5, created_at |-> 1],
                 [score |-> 3, created_at |-> 2]},
        p12 \in {[score |-> 5, created_at |-> 1]},
        p21 \in {NoPref, [score |-> 5, created_at |-> 1]},
        p22 \in {NoPref, [score |-> 3, created_at |-> 2]} :
       prefDB = PrefRows((<<1, 1>> :> p11) @@ (<<1, 2>> :> p12)
                         @@ (<<2, 1>> :> p21) @@ (<<2, 2>> :> p22))
  /\ solverTie \in 0 .. MaxTie
  /\ InitRun

SpecLP == InitLP /\ [][NextLP]_vars

\* ------------------------------------------------------------------------
\* Properties
\* ------------------------------------------------------------------------
\* Two placements that hold the same teacher, division or classroom in a
\* common slot (a Lab holds slot and slot + WORKDAY_COUNT).
Clash(p, q) ==
  /\ OccupiedSlots(p[4], p[6]) \cap OccupiedSlots(q[4], q[6]) # {}
  /\ (p[1] = q[1] \/ p[3] = q[3] \/ p[5] = q[5])

NoDoubleBooking(list) ==
  \A i, j \in DOMAIN list : i < j => ~Clash(list[i], list[j])

\* C1: in every list of placements a try_allocate call returns, no two
\* placements occupy the same (slot, teacher), (slot, division) or
\* (slot, classroom), a Lab occupying slot and slot + WORKDAY_COUNT.
C1_NoDoubleBooking ==
  ~result.none => NoDoubleBooking(result.list)

\* A full schedule of four sessions with a Lab in it was returned.
C1_Witness ==
  /\ pc = "persist"
  /\ Len(result.list) >= 4
  /\ \E i \in DOMAIN result.list : result.list[i][6] = DOUBLE_SLOT
  /\ \E i, j \in DOMAIN result.list :
       i # j /\ result.list[i][4] = result.list[j][4]

Kind(p) == <<p[1], p[2], p[3], p[6]>>

Occurrences(seq, e) == Cardinality({i \in DOMAIN seq : seq[i] = e})

KindsOf(list) == [i \in DOMAIN list |-> Kind(list[i])]

\* C2: the placements the search returns match the session instances of
\* the expansion one to one: as many placements as instances, and every
\* (teacher, subject, division, kind) as often among the placements as
\* among the instances.
C2_Coverage ==
  ~hist.allocations.none =>
    /\ Len(hist.allocations.list) = Len(hist.sessions)
    /\ \A e \in Range(hist.sessions) \cup Range(KindsOf(hist.allocations.list)) :
         Occurrences(KindsOf(hist.allocations.list), e)
           = Occurrences(hist.sessions, e)

\* Placements were returned for an expansion of four sessions, two of
\* them instances of the same (teacher, subject, division, kind).
C2_Witness ==
  /\ ~hist.allocations.none
  /\ Len(hist.sessions) >= 4
  /\ \E i, j \in DOMAIN hist.sessions :
       i # j /\ hist.sessions[i] = hist.sessions[j]

\* The (subject, division) pairs the divisions require.
RequiredPairs ==
  {<<s, d>> \in (DOMAIN subjectDB) \X (DOMAIN divisionDB) :
     s \in divisionDB[d].subjects}

RunEnded == pc = "idle" /\ outcome \notin {"none", "mapped"}

NewTimetables == timetableDB \ hist.store0[1]

EntriesOf(tt, s, d, kind) ==
  {e \in entryDB : /\ e.timetable = tt /\ e.subject = s
                   /\ e.division = d /\ e.session_type = kind}

\* Timetable tt holds every required session of every required pair.
CompleteTimetable(tt) ==
  \A p \in RequiredPairs :
    /\ Cardinality(EntriesOf(tt, p[1], p[2], SINGLE_SLOT))
         = subjectDB[p[1]].lectures_per_week
    /\ Cardinality(EntriesOf(tt, p[1], p[2], DOUBLE_SLOT))
         = subjectDB[p[1]].labs_per_week

\* C3: a generation request either persists a complete timetable, every
\* required session of every required (subject, division) pair assigned a
\* teacher, a classroom and a slot, or creates no Timetable and no
\* TimetableEntry row: when the assignment is infeasible, the solver not
\* Optimal, the search exhausted or the time limit reached, the store is
\* as it was before the request.
C3_CompleteOrNothing ==
  RunEnded =>
    /\ \A tt \in NewTimetables : CompleteTimetable(tt)
    /\ (LP_output.solver_status # "Optimal" \/ outcome # "success")
         => <<timetableDB, entryDB>> = hist.store0

AssignedHours(t) ==
  SumOver({i \in DOMAIN LP_output.assignments :
             LP_output.assignments[i][1] = t},
          [i \in DOMAIN LP_output.assignments |->
             subjectDB[LP_output.assignments[i][2]].lectures_per_week
             + 2 * subjectDB[LP_output.assignments[i][2]].labs_per_week])

\* C4: with solver status Optimal, for every teacher the hours of the
\* pairs assigned to the teacher (lectures_per_week + 2 * labs_per_week of
\* each) add up to at most the teacher's max_workload.
C4_WorkloadBound ==
  LP_output.solver_status = "Optimal" =>
    \A t \in DOMAIN teacherDB : AssignedHours(t) <= teacherDB[t].max_workload

\* An Optimal assignment that fills one teacher's max_workload exactly and
\* gives hours to the other teacher too.
C4_Witness ==
  /\ outcome = "mapped"
  /\ LP_output.solver_status = "Optimal"
  /\ \E t, u \in DOMAIN teacherDB :
       /\ t # u
       /\ AssignedHours(t) = teacherDB[t].max_workload
       /\ AssignedHours(t) > 0
       /\ AssignedHours(u) > 0

HasPreference(t, s) == <<t, s>> \in DOMAIN prefDB

\* C5: when a subject some division requires has no allowed teacher (no
\* teacher has a Preference row for it), the assignment is reported
\* infeasible with a reason naming the subject, try_allocate is never
\* invoked and nothing is persisted.
C5_NoTeacherStops ==
  (RunEnded /\ \E p \in RequiredPairs :
                 \A t \in DOMAIN teacherDB : ~HasPreference(t, p[1]))
    => /\ LP_output.solver_status = "infeasible"
       /\ \E r \in LP_output.infeasibility_reasons : r[1] = "no_teacher"
       /\ ~hist.tryCalled
       /\ <<timetableDB, entryDB>> = hist.store0

\* The slots a placement of session a at slot in room would hold, as
\* (entity kind, id, slot) triples.
Holds(a, slot, room) ==
  {<<"teacher", a[1], k>> : k \in OccupiedSlots(slot, a[4])}
    \cup {<<"division", a[3], k>> : k \in OccupiedSlots(slot, a[4])}
    \cup {<<"classroom", room, k>> : k \in OccupiedSlots(slot, a[4])}

\* What the snapshots taken at the start of the run leave free.
FreeAtStart ==
  UNION ({{<<"teacher", t, k>> : k \in hist.snap0[1][t]} :
            t \in DOMAIN hist.snap0[1]}
         \cup {{<<"classroom", r, k>> : k \in hist.snap0[2][r]} :
                 r \in DOMAIN hist.snap0[2]}
         \cup {{<<"division", d, k>> : k \in hist.snap0[3][d]} :
                 d \in DOMAIN hist.snap0[3]})

\* A Lab starts in an even row of the week grid and ends inside the grid.
Admissible(a, slot) ==
  a[4] = DOUBLE_SLOT =>
    (slot \div WORKDAY_COUNT) % 2 = 0 /\ slot + WORKDAY_COUNT \in Slots

RECURSIVE Schedulable(_, _, _)
\* Whether sessions i .. Len(sessions) can all be placed in what free holds.
Schedulable(sessions, i, free) ==
  IF i > Len(sessions) THEN TRUE
  ELSE \E slot \in Slots, room \in DOMAIN hist.snap0[2] :
         /\ Admissible(sessions[i], slot)
         /\ Holds(sessions[i], slot, room) \subseteq free
         /\ Schedulable(sessions, i + 1,
                        free \ Holds(sessions[i], slot, room))

\* The list places the sessions, last session first, in free slots.
ValidSchedule(sessions, list) ==
  /\ Len(list) = Len(sessions)
  /\ \A k \in DOMAIN list :
       /\ Kind(list[k]) = sessions[Len(sessions) + 1 - k]
       /\ Admissible(sessions[Len(sessions) + 1 - k], list[k][4])
       /\ Holds(sessions[Len(sessions) + 1 - k], list[k][4], list[k][5])
            \subseteq FreeAtStart
  /\ NoDoubleBooking(list)

TopLevelReturn == pc = "ret" /\ stack = <<>>

\* C6: when no time limit interrupts it, the search returns None exactly
\* when no placement of all the sessions satisfies the availability, Lab
\* pairing and no-double-booking constraints, and otherwise returns such a
\* placement.
C6_SoundAndComplete ==
  TopLevelReturn =>
    /\ (result.none <=> ~Schedulable(assignments, 1, FreeAtStart))
    /\ (~result.none => ValidSchedule(assignments, result.list))

\* The search came back with None for two lectures of a teacher who has a
\* single free slot.
C6_Witness ==
  /\ TopLevelReturn
  /\ result.none
  /\ Len(assignments) >= 2
  /\ \E i \in DOMAIN assignments :
       Cardinality(hist.snap0[1][assignments[i][1]]) = 1

C8_AllOrNothing ==
  (pc = "idle" /\ outcome = "integrity_error")
    => <<timetableDB, entryDB>> = hist.store0

\* A run of several placements ended in an IntegrityError against the
\* entries of a timetable persisted earlier.
C8_Witness ==
  /\ pc = "idle"
  /\ outcome = "integrity_error"
  /\ hist.store0[2] # {}
  /\ Len(hist.allocations.list) >= 2

PairsAssigned(s, d) ==
  {i \in DOMAIN LP_output.assignments :
     LP_output.assignments[i][2] = s /\ LP_output.assignments[i][3] = d}

\* C9: with solver status Optimal, every required (subject, division) pair
\* is assigned to exactly one teacher, and only required pairs are
\* assigned.
C9_ExactlyOneTeacher ==
  LP_output.solver_status = "Optimal" =>
    /\ \A p \in RequiredPairs : Cardinality(PairsAssigned(p[1], p[2])) = 1
    /\ \A i \in DOMAIN LP_output.assignments :
         <<LP_output.assignments[i][2], LP_output.assignments[i][3]>>
           \in RequiredPairs

\* An Optimal assignment of three pairs that uses both teachers.
C9_Witness ==
  /\ outcome = "mapped"
  /\ LP_output.solver_status = "Optimal"
  /\ Cardinality(RequiredPairs) >= 3
  /\ \E i, j \in DOMAIN LP_output.assignments :
       LP_output.assignments[i][1] # LP_output.assignments[j][1]

Capacity ==
  SumOver(DOMAIN teacherDB,
          [t \in DOMAIN teacherDB |-> teacherDB[t].max_workload])

Demand ==
  SumOver(RequiredPairs,
          [p \in RequiredPairs |-> subjectDB[p[1]].lectures_per_week
                                   + 2 * subjectDB[p[1]].labs_per_week])

Teachable(require_preference, s) ==
  \E t \in DOMAIN teacherDB : ~require_preference \/ HasPreference(t, s)

\* C10: when the teachers' max_workload adds up to less than the hours all
\* required pairs need, the mapping returns status 'infeasible' with a
\* capacity reason, no assignment, workload 0 for every teacher and the
\* statistics of every subject, without running the optimizer; the
\* optimizer runs only when the pre-check records no reason.
C10_CapacityPreCheck ==
  outcome = "mapped" =>
    /\ (Capacity < Demand) =>
         /\ LP_output.solver_status = "infeasible"
         /\ \E r \in LP_output.infeasibility_reasons :
              r = <<"capacity", Capacity, Demand>>
         /\ LP_output.assignments = <<>>
         /\ \A t \in DOMAIN teacherDB : LP_output.teacher_stats[t].workload = 0
         /\ DOMAIN LP_output.subject_stats = DOMAIN subjectDB
         /\ hist.solved = "no"
    /\ (hist.solved = "yes") =>
         /\ Capacity >= Demand
         /\ \A p \in RequiredPairs : Teachable(hist.args[1], p[1])

\* The mapping was called with too little capacity and a teacher allowed
\* for every required subject.
C10_Witness ==
  /\ outcome = "mapped"
  /\ Capacity < Demand
  /\ Capacity > 0
  /\ \A p \in RequiredPairs : Teachable(hist.args[1], p[1])

\* How a finished run went, by the path it took.
RunTimedOut == RunEnded /\ outcome = "timeout"

RunExhausted == RunEnded /\ outcome = "no_timetable"

RunInfeasible ==
  RunEnded /\ outcome = "success" /\ LP_output.solver_status # "Optimal"

RunSucceeded ==
  RunEnded /\ outcome = "success" /\ LP_output.solver_status = "Optimal"

C12_NoExceptionForOutcome ==
  (RunTimedOut \/ RunExhausted \/ RunInfeasible) => response.kind = "return"

\* C13: with a timeout configured, an entry to try_allocate that finds the
\* elapsed time above the budget ends the run at once with TimeoutError,
\* whatever the depth of the search; a run ended this way has returned
\* neither None nor placements and has persisted nothing.
C13_TimeoutAborts ==
  /\ [][(pc = "call" /\ req.timeout # 0 /\ clock' > req.timeout)
          => /\ outcome' = "timeout"
             /\ response' = Raised("TimeoutError")
             /\ pc' = "idle"]_vars
  /\ [](RunTimedOut =>
          /\ response.kind = "raise"
          /\ generate(response).status = 408
          /\ hist.allocations.none
          /\ <<timetableDB, entryDB>> = hist.store0)

\* The budget ran out inside the search of sessions that cannot all be
\* placed: the run ended as timed out, not as exhausted.
C13_Witness ==
  /\ RunTimedOut
  /\ stack # <<>>
  /\ ~Schedulable(assignments, 1, FreeAtStart)

\* The start of a Lab: an even row of the grid, the second slot inside it.
LabPair(slot) ==
  /\ (slot \div WORKDAY_COUNT) % 2 = 0
  /\ slot + WORKDAY_COUNT < TIME_SLOTS
  /\ slot % WORKDAY_COUNT = (slot + WORKDAY_COUNT) % WORKDAY_COUNT

\* C14: whenever the search marks a Lab candidate, its slot starts an even
\* row, slot + WORKDAY_COUNT is below TIME_SLOTS and in the same day class,
\* and the teacher, the division and the room are free at both slots at
\* that moment; every Lab placement of a returned list starts such a pair.
C14_LabPairing ==
  /\ [][(pc = "loop" /\ pc' = "call"
         /\ stack'[Len(stack')].a[4] = DOUBLE_SLOT)
          => LET q == FramePlacement(stack'[Len(stack')])
             IN /\ LabPair(q[4])
                /\ {q[4], q[4] + WORKDAY_COUNT} \subseteq teachers[q[1]]
                /\ {q[4], q[4] + WORKDAY_COUNT} \subseteq divisions[q[3]]
                /\ {q[4], q[4] + WORKDAY_COUNT} \subseteq classrooms[q[5]]]_vars
  /\ [](\A i \in DOMAIN result.list :
          result.list[i][6] = DOUBLE_SLOT => LabPair(result.list[i][4]))

\* A Lab was placed for a teacher who is also free at slots 6 and 12, a
\* pair that starts in an odd row.
C14_Witness ==
  /\ pc = "persist"
  /\ \E i \in DOMAIN result.list :
       /\ result.list[i][6] = DOUBLE_SLOT
       /\ {6, 12} \subseteq hist.snap0[1][result.list[i][1]]

\* The run's sessions are the two lectures of one (teacher, subject,
\* division).
TwoLectures ==
  /\ Len(assignments) = 2
  /\ assignments[1] = assignments[2]
  /\ assignments[1][4] = SINGLE_SLOT

\* The slots free for the teacher, the division and a room of the two
\* lectures when the run started.
CommonFree ==
  {k \in Slots :
     /\ k \in hist.snap0[1][assignments[1][1]]
     /\ k \in hist.snap0[3][assignments[1][3]]
     /\ \E r \in DOMAIN hist.snap0[2] : k \in hist.snap0[2][r]}

\* C15: for a single (teacher, subject, division) with 2 lectures and no
\* lab, when the commonly free slots hold two slots of different day
\* classes the search returns 2 placements in different day classes.
C15_NoSameDayWhenAvoidable ==
  (/\ TopLevelReturn
   /\ TwoLectures
   /\ \E a, b \in CommonFree : a % WORKDAY_COUNT # b % WORKDAY_COUNT)
    => /\ ~result.none
       /\ Len(result.list) = 2
       /\ result.list[1][4] % WORKDAY_COUNT # result.list[2][4] % WORKDAY_COUNT

\* The two lectures were placed with one room in use, the commonly free
\* slots holding slots 0 and 6 of one day class and slot 1 of another.
C15_Witness ==
  /\ TopLevelReturn
  /\ TwoLectures
  /\ {0, 1, 6} \subseteq CommonFree
  /\ hist.snap0[2][2] = {}
  /\ ~result.none

InUniverse(id_list, id) == id_list = {} \/ id \in id_list

\* C16: with teacher_ids, classroom_ids or division_ids given, every
\* assignment and every placement of the run names only teachers,
\* classrooms and divisions of the given lists, and the search never looks
\* up an entity its snapshots do not hold.
C16_RestrictedUniverse ==
  /\ \A i \in DOMAIN LP_output.assignments :
       /\ InUniverse(req.teacher_ids, LP_output.assignments[i][1])
       /\ InUniverse(req.division_ids, LP_output.assignments[i][3])
  /\ \A i \in DOMAIN result.list :
       /\ InUniverse(req.teacher_ids, result.list[i][1])
       /\ InUniverse(req.division_ids, result.list[i][3])
       /\ InUniverse(req.classroom_ids, result.list[i][5])
  /\ ~(outcome = "key_error" /\ hist.tryCalled)

\* C17: an edit of the entity store made while a run is in flight does
\* not change the run's result, which is the result for the store as it
\* was at the call: a run returns the placements of an earlier run that
\* was called on the same store with the same ids and the same seed.
C17_PointInTimeCopy ==
  (/\ pc \in {"persist", "bulk", "rollback"}
   /\ hist.prev.input = hist.input0
   /\ hist.prev.seed = hist.seed)
    => hist.allocations.list = hist.prev.list

\* The score the objective and total_satisfaction give a triple.
TripleScore(a) ==
  IF HasPreference(a[1], a[2]) THEN prefDB[<<a[1], a[2]>>].score
  ELSE hist.args[2]

\* C18: called with require_preference true, the mapping assigns a pair
\* only to a teacher who has a Preference row for the subject, whatever
\* the solver status; called with require_preference false, every teacher
\* has a decision variable for every required pair, and a triple without
\* a Preference row counts preference_missing_score in total_satisfaction.
C18_AllowedTeachers ==
  outcome = "mapped" =>
    /\ hist.args[1] =>
         \A i \in DOMAIN LP_output.assignments :
           HasPreference(LP_output.assignments[i][1],
                         LP_output.assignments[i][2])
    /\ (hist.args[1] /\ hist.solved = "yes") =>
         Range(x_keys(TRUE)) = {k \in (DOMAIN teacherDB) \X (DOMAIN subjectDB)
                                 \X (DOMAIN divisionDB) :
                           /\ <<k[2], k[3]>> \in RequiredPairs
                           /\ HasPreference(k[1], k[2])}
    /\ (~hist.args[1] /\ hist.solved = "yes") =>
         /\ Range(x_keys(FALSE))
              = {k \in (DOMAIN teacherDB) \X (DOMAIN subjectDB)
                        \X (DOMAIN divisionDB) :
                   <<k[2], k[3]>> \in RequiredPairs}
         /\ LP_output.total_satisfaction
              = SumOver(DOMAIN LP_output.assignments,
                        [i \in DOMAIN LP_output.assignments |->
                           TripleScore(LP_output.assignments[i])])

\* With require_preference true an Optimal assignment was found although
\* some teacher has no Preference row for a required subject.
C18_Witness ==
  /\ outcome = "mapped"
  /\ hist.args[1]
  /\ LP_output.solver_status = "Optimal"
  /\ LP_output.assignments # <<>>
  /\ \E p \in RequiredPairs, t \in DOMAIN teacherDB : ~HasPreference(t, p[1])

\* C19: when the optimizer ends with a status other than Optimal, the
\* mapping returns that status and a non-empty infeasibility_reasons that
\* carries the status string; when it ends Optimal, infeasibility_reasons
\* is empty.
C19_SolverFailureSurfaced ==
  (outcome = "mapped" /\ hist.solved = "yes") =>
    /\ LP_output.solver_status # "infeasible"
    /\ LP_output.solver_status = "Optimal"
         => LP_output.infeasibility_reasons = {}
    /\ LP_output.solver_status # "Optimal"
         => /\ LP_output.infeasibility_reasons # {}
            /\ \A r \in LP_output.infeasibility_reasons :
                 r[1] = "solver_failed" /\ r[2] = LP_output.solver_status

\* The pre-check passed and the optimizer found no feasible assignment.
C19_Witness ==
  /\ outcome = "mapped"
  /\ hist.solved = "yes"
  /\ LP_output.solver_status # "Optimal"
  /\ Capacity >= Demand

\* A snapshot with the slots of ks set free for entity id and no other
\* change.
Freed(df, id, ks) ==
  [e \in DOMAIN df |-> IF e = id THEN df[e] \cup ks ELSE df[e]]

\* C20: a try_allocate call that returns None leaves the three
\* availability snapshots as they were on its entry, at every depth and at
\* the top; between two candidates of a call they are as on entry too, and
\* the rollback of a failed candidate frees the slot(s) of that candidate
\* for its teacher, division and room and changes nothing else.
C20_ExactRollback ==
  /\ [](pc = "loop"
          => <<teachers, classrooms, divisions>> = stack[Len(stack)].entry)
  /\ [][(pc = "loop" /\ pc' = "ret")
          => /\ result'.none
             /\ <<teachers', classrooms', divisions'>>
                  = stack[Len(stack)].entry]_vars
  /\ [][(pc = "ret" /\ result.none /\ stack # <<>>)
          => LET q == FramePlacement(stack[Len(stack)])
                 ks == OccupiedSlots(q[4], q[6])
             IN /\ teachers' = Freed(teachers, q[1], ks)
                /\ divisions' = Freed(divisions, q[3], ks)
                /\ classrooms' = Freed(classrooms, q[5], ks)]_vars
  /\ []((TopLevelReturn /\ result.none)
          => <<teachers, classrooms, divisions>> = hist.snap0)

\* Every candidate of a Lab session was marked and rolled back, and the
\* call is about to return None with the snapshots as on its entry.
C20_Witness ==
  /\ pc = "loop"
  /\ Len(stack) >= 2
  /\ stack[Len(stack)].a[4] = DOUBLE_SLOT
  /\ stack[Len(stack)].pos >= 1
  /\ stack[Len(stack)].pos = Len(stack[Len(stack)].cands)
  /\ <<teachers, classrooms, divisions>> # hist.snap0

\* The slots of entity id (position i of a placement) that the placements
\* of cur occupy.
OccupiedBy(cur, i, id) ==
  UNION {OccupiedSlots(cur[n][4], cur[n][6]) :
           n \in {m \in DOMAIN cur : cur[m][i] = id}}

\* A snapshot is its initial value less the slots cur occupies.
SnapshotMatches(df, df0, cur, i) ==
  /\ DOMAIN df = DOMAIN df0
  /\ \A id \in DOMAIN df :
       /\ df[id] \subseteq df0[id]
       /\ df0[id] \ df[id] = OccupiedBy(cur, i, id) \cap df0[id]
       /\ OccupiedBy(cur, i, id) \subseteq df0[id]

\* C21: at every entry to try_allocate the snapshots differ from the
\* snapshots loaded at the start in exactly the slots that the placements
\* of current_allocations occupy (both slots of a Lab), for teachers,
\* divisions and classrooms, and current_allocations holds as many
\* placements as assignment_index.
C21_SnapshotsMirrorAllocations ==
  pc = "call" =>
    LET cur == NextCurrentAllocations
    IN /\ Len(cur) = Len(stack)
       /\ SnapshotMatches(teachers, hist.snap0[1], cur, 1)
       /\ SnapshotMatches(classrooms, hist.snap0[2], cur, 5)
       /\ SnapshotMatches(divisions, hist.snap0[3], cur, 3)

\* An entry at depth two with a Lab among the placements, reached after the
\* first session's first candidate had been rolled back.
C21_Witness ==
  /\ pc = "call"
  /\ Len(stack) >= 2
  /\ stack[1].pos >= 2
  /\ \E n \in DOMAIN NextCurrentAllocations :
       NextCurrentAllocations[n][6] = DOUBLE_SLOT

\* The (slot, room) pairs that can hold the session of frame f, given the
\* snapshots on entry.
Eligible(f) ==
  {c \in Slots \X DOMAIN f.entry[2] :
     /\ Admissible(f.a, c[1])
     /\ \A k \in OccupiedSlots(c[1], f.a[4]) :
          /\ k \in f.entry[1][f.a[1]]
          /\ k \in f.entry[3][f.a[3]]
          /\ k \in f.entry[2][c[2]]}

\* A placement of the same division and subject on the day of slot.
SoftViolating(f, slot) ==
  \E n \in DOMAIN f.cur :
    /\ f.cur[n][3] = f.a[3]
    /\ f.cur[n][2] = f.a[2]
    /\ f.cur[n][4] % WORKDAY_COUNT = slot % WORKDAY_COUNT

\* Clean candidates before violating ones, then by slot, then by room.
Before(c, d) ==
  IF c[1] # d[1] THEN ~c[1]
  ELSE IF c[2] # d[2] THEN c[2] < d[2]
  ELSE c[3] < d[3]

\* C22: the candidates of a session instance are every (slot, room) that
\* can hold it, none removed for a soft violation; a candidate is flagged
\* violating iff current_allocations places the same division and subject
\* on the same day; the list has the clean candidates first, then the
\* violating ones, each group by ascending slot and, for equal slot, in
\* room order; the loop tries them one by one in that order and returns
\* None only after the last one, violating or not, has failed.
C22_CandidateOrder ==
  /\ []((pc = "loop" /\ stack[Len(stack)].pos = 0) =>
          LET f == stack[Len(stack)]
          IN /\ f.a = assignments[Len(stack)]
             /\ {<<f.cands[i][2], f.cands[i][3]>> : i \in DOMAIN f.cands}
                  = Eligible(f)
             /\ Len(f.cands) = Cardinality(Eligible(f))
             /\ \A i \in DOMAIN f.cands :
                  f.cands[i][1] <=> SoftViolating(f, f.cands[i][2])
             /\ \A i, j \in DOMAIN f.cands :
                  i < j => Before(f.cands[i], f.cands[j]))
  /\ [][\A n \in DOMAIN stack \cap DOMAIN stack' :
          /\ stack'[n].cands = stack[n].cands
          /\ stack'[n].cur = stack[n].cur
          /\ stack'[n].a = stack[n].a]_vars
  /\ [][(pc = "loop" /\ pc' = "call")
          => LET n == Len(stack)
                 f == stack[n]
                 c == f.cands[f.pos + 1]
             IN /\ stack'[n].pos = f.pos + 1
                /\ teachers'[f.a[1]]
                     = teachers[f.a[1]] \ OccupiedSlots(c[2], f.a[4])
                /\ divisions'[f.a[3]]
                     = divisions[f.a[3]] \ OccupiedSlots(c[2], f.a[4])
                /\ classrooms'[c[3]]
                     = classrooms[c[3]] \ OccupiedSlots(c[2], f.a[4])]_vars
  /\ [][(pc = "loop" /\ pc' = "ret")
          => stack[Len(stack)].pos = Len(stack[Len(stack)].cands)]_vars

\* A violating candidate is being tried after clean candidates of the same
\* session, two of them at one slot in different rooms, have all failed.
C22_Witness ==
  /\ pc = "call"
  /\ stack # <<>>
  /\ LET f == stack[Len(stack)]
     IN /\ f.pos >= 3
        /\ f.cands[f.pos][1]
        /\ ~f.cands[1][1]
        /\ f.cands[1][2] = f.cands[2][2]
        /\ f.cands[1][3] # f.cands[2][3]

\* Every session instance has been placed and try_allocate is entered for
\* the base case.
AllPlaced ==
  pc = "call" /\ assignments # <<>> /\ Len(stack) = Len(assignments)

\* C23: once every session instance has been placed the search reports
\* success whatever time has elapsed: the entry that finds no session left
\* returns the empty list, and no run that ends as timed out had placed
\* all its sessions.
C23_FullPlacementNotTimedOut ==
  /\ [][AllPlaced => (pc' = "ret" /\ ~result'.none /\ outcome' = outcome)]_vars
  /\ []((RunTimedOut /\ assignments # <<>>)
          => Len(stack) < Len(assignments))

\* How many instances of the session e the expansion owes: per triple of
\* LP_output carrying e's (teacher, subject, division), the subject's
\* lectures_per_week for a Lecture, its labs_per_week for a Lab.
Owed(e) ==
  IF e[2] \notin DOMAIN subjectDB THEN 0
  ELSE Occurrences(LP_output.assignments, <<e[1], e[2], e[3]>>)
         * (IF e[4] = SINGLE_SLOT THEN subjectDB[e[2]].lectures_per_week
            ELSE IF e[4] = DOUBLE_SLOT THEN subjectDB[e[2]].labs_per_week
            ELSE 0)

\* Every session a triple of LP_output could give rise to.
SessionsOfTriples ==
  {<<t[1], t[2], t[3], k>> :
     t \in Range(LP_output.assignments), k \in {SINGLE_SLOT, DOUBLE_SLOT}}

IsExpansion(x) ==
  \A e \in Range(x) \cup SessionsOfTriples : Occurrences(x, e) = Owed(e)

\* C24: the expansion holds, for each triple of LP_output, exactly
\* lectures_per_week Lecture instances and labs_per_week Lab instances of
\* that triple and nothing else; the shuffled list handed to the search
\* has the same instances the same number of times.
C24_ExpansionExact ==
  /\ pc = "shuffle" => IsExpansion(assignments)
  /\ hist.seed # -1 =>
       /\ IsExpansion(hist.sessions)
       /\ Len(assignments) = Len(hist.sessions)
       /\ \A e \in Range(assignments) \cup Range(hist.sessions) :
            Occurrences(assignments, e) = Occurrences(hist.sessions, e)

\* The search was entered with a list of Lectures and Labs of two triples
\* that the shuffle had put in another order.
C24_Witness ==
  /\ pc = "call"
  /\ hist.seed # -1
  /\ assignments # hist.sessions
  /\ Len(LP_output.assignments) = 2
  /\ \E i, j \in DOMAIN assignments :
       assignments[i][4] = SINGLE_SLOT /\ assignments[j][4] = DOUBLE_SLOT

\* Every availability set of a snapshot lies inside the slot range.
InsideRange(df) == \A id \in DOMAIN df : df[id] \subseteq Slots

\* C25: every slot index the search passes to is_available or
\* set_availability lies in 0 .. TIME_SLOTS - 1, for a Lecture and for both
\* slots of a Lab, when candidates are collected, marked and rolled back;
\* no position outside that range is ever written, so the availability
\* vectors stay TIME_SLOTS long.
C25_SlotIndexInRange ==
  /\ [](\A n \in DOMAIN stack :
          stack[n].lo >= 0 /\ stack[n].hi < TIME_SLOTS)
  /\ [](\A k \in 0 .. (SlotsScanned - 1) :
          LabStartOk(k) => (k + WORKDAY_COUNT) \in Slots)
  /\ [][(pc = "loop" /\ pc' = "call")
          => LET f == stack[Len(stack)]
             IN OccupiedSlots(f.cands[f.pos + 1][2], f.a[4]) \subseteq Slots]_vars
  /\ [][(pc = "ret" /\ result.none /\ stack # <<>>)
          => LET f == stack[Len(stack)]
             IN OccupiedSlots(f.cands[f.pos][2], f.a[4]) \subseteq Slots]_vars
  /\ [](pc \in {"call", "loop", "ret"}
          => /\ InsideRange(teachers)
             /\ InsideRange(classrooms)
             /\ InsideRange(divisions))

\* A Lab is placed on top of a Lecture: the loop read the last slot of the
\* week for both, and the Lab's second slot was written.
C25_Witness ==
  /\ pc = "call"
  /\ Len(stack) >= 2
  /\ \E n \in DOMAIN stack : stack[n].a[4] = SINGLE_SLOT
  /\ LET f == stack[Len(stack)]
     IN /\ f.a[4] = DOUBLE_SLOT
        /\ f.hi = TIME_SLOTS - 1
        /\ (f.cands[f.pos][2] + WORKDAY_COUNT) \notin teachers[f.a[1]]
        /\ (f.cands[f.pos][2] + WORKDAY_COUNT) \in f.entry[1][f.a[1]]

\* try_allocate(0, ...) is entered.
SearchEntered == pc = "call" /\ stack = <<>>

\* C26: the search ends: after try_allocate(0, ...) is entered, the call
\* returns (a list or None) or the run ends with TimeoutError; with no
\* timeout (None or 0) TimeoutError is never raised and the call returns.
C26_SearchTerminates ==
  /\ SearchEntered ~> (TopLevelReturn \/ RunTimedOut)
  /\ (SearchEntered /\ req.timeout = 0) ~> TopLevelReturn
  /\ [](outcome = "timeout" => req.timeout # 0)

\* A search without timeout returned None after every candidate of the
\* first of at least two sessions had been tried.
C26_Witness ==
  /\ TopLevelReturn
  /\ req.timeout = 0
  /\ result.none
  /\ Len(assignments) >= 2
  /\ \E i \in DOMAIN assignments : assignments[i][4] = DOUBLE_SLOT

\* Two rows with the same time_slot and the same teacher, division or
\* classroom.
SharePair(r, q) ==
  /\ r.time_slot = q.time_slot
  /\ (r.teacher = q.teacher \/ r.division = q.division
        \/ r.classroom = q.classroom)

\* A placement of the run's allocations takes the time_slot of a row
\* stored before the run, for the same teacher, division or classroom.
ReusesStoredPair ==
  \E i \in DOMAIN hist.allocations.list, q \in hist.store0[2] :
    SharePair(EntryRow(hist.allocations.list[i], 0), q)

\* C27: no two TimetableEntry rows, of whatever timetables, share
\* (teacher, time_slot), (division, time_slot) or (classroom, time_slot);
\* a run whose placements reuse such a pair of a row stored earlier ends
\* with IntegrityError and leaves timetables and entries as they were,
\* and a run that persisted reused none.
C27_UniqueAcrossTimetables ==
  /\ \A r, q \in entryDB : r # q => ~SharePair(r, q)
  /\ (RunEnded /\ ~hist.allocations.none /\ ReusesStoredPair)
       => /\ outcome = "integrity_error"
          /\ response = Raised("IntegrityError")
          /\ <<timetableDB, entryDB>> = hist.store0
  /\ (RunEnded /\ outcome = "success") => ~ReusesStoredPair

\* A second run placed a session on a pair the first timetable holds and
\* ended with IntegrityError, the first timetable still stored.
C27_Witness ==
  /\ RunEnded
  /\ outcome = "integrity_error"
  /\ ReusesStoredPair
  /\ Cardinality(timetableDB) = 1
  /\ entryDB # {}
  /\ <<timetableDB, entryDB>> = hist.store0

====
